---- MODULE Spec2Model ----
(***************************************************************************)
(* wagtailmenus: the menu resolution engine and its per-instance cache.    *)
(*                                                                         *)
(* One menu instance (a model-backed MenuWithMenuItems, i.e. MainMenu or   *)
(* FlatMenu, or a MenuFromRootPage, i.e. SectionMenu or ChildrenMenu) is   *)
(* modelled together with the page tree and the menu item rows it reads.   *)
(* Pages live in a materialized-path tree: a path is a sequence of         *)
(* fixed-width segments, one sequence element per segment (steplen).       *)
(* A QuerySet is the set of page ids it selects; evaluating it yields the  *)
(* page objects in path order, each marked specific when .specific() was   *)
(* applied to the QuerySet.                                                *)
(***************************************************************************)
EXTENDS Integers, Sequences, FiniteSets, TLC

----------------------------------------------------------------------------
(* Settings (wagtailmenus.app_settings) *)

USE_SPECIFIC_OFF == 0
USE_SPECIFIC_AUTO == 1
USE_SPECIFIC_TOP_LEVEL == 2
USE_SPECIFIC_ALWAYS == 3
SECTION_ROOT_DEPTH == 3

USE_SPECIFIC_VALUES ==
    {USE_SPECIFIC_OFF, USE_SPECIFIC_AUTO, USE_SPECIFIC_TOP_LEVEL,
     USE_SPECIFIC_ALWAYS}

\* constants.MAX_LEVELS_CHOICES, without the labels
MAX_LEVELS_CHOICES == {1, 2, 3, 4}

----------------------------------------------------------------------------
(* Bounds of the model *)

\* longest raw value submitted to a form field, in characters
MaxChars == 2

\* largest max_levels value a menu is given
MaxLevels == 3
\* largest number of menu item rows of the menu
MaxItems == 2
\* largest number of pages failing the live/expired/show_in_menus filter
MaxHidden == 1
\* rows a menu may hold once add_menu_items_for_pages has added to it
MaxRows == 3
\* Site rows
MaxSites == 2
\* repeated items a children list may be given
MaxRepeats == 1

----------------------------------------------------------------------------
(* The page tree.  Ids are numbered in path order.                         *)
(*   1 home      <<1,1>>        depth 2                                     *)
(*   2 A         <<1,1,1>>      depth 3                                     *)
(*   3 A1        <<1,1,1,1>>    depth 4                                     *)
(*   4 A11       <<1,1,1,1,1>>  depth 5                                     *)
(*   5 B         <<1,1,2>>      depth 3                                     *)
(*   6 B1        <<1,1,2,1>>    depth 4                                     *)

steplen == 1

PagePath ==
    <<  <<1, 1>>, <<1, 1, 1>>, <<1, 1, 1, 1>>, <<1, 1, 1, 1, 1>>,
        <<1, 1, 2>>, <<1, 1, 2, 1>> >>

PageIds == DOMAIN PagePath

path(i) == PagePath[i]

depth(i) == Len(path(i)) \div steplen

\* str.startswith on paths
startswith(p, prefix) ==
    /\ Len(prefix) <= Len(p)
    /\ SubSeq(p, 1, Len(prefix)) = prefix

\* page.path[:-page.steplen]
ParentPath(p) == SubSeq(p, 1, Len(p) - steplen)

VARIABLES
    live,               \* ids of the pages with live = True
    expired,            \* ids of the pages with expired = True
    show_in_menus,      \* ids of the pages with show_in_menus = True
    menu_items,         \* the menu's item rows, in the order of creation
    menu_class,         \* "MenuWithMenuItems" or "MenuFromRootPage"
    root_page,          \* id of the root page (MenuFromRootPage), else 0
    max_levels,
    use_specific,
    top_level_items,    \* cached_property: <<>> or <<value>>
    pages_for_display,  \* cached_property: <<>> or <<value>>
    page_children_dict, \* cached_property: <<>> or <<value>>
    computed,           \* the cached properties the last call evaluated
    discarded,          \* the cached values the last call deleted
    repeat_in_subnav,   \* ids of the MenuPages with repeat_in_subnav = True
    flat_menus,         \* the FlatMenu rows: [site, handle] records
    default_site,       \* id of the Site with is_default_site, else 0
    related_name,       \* the setting *_MENU_ITEMS_RELATED_NAME
    call,               \* the last call of a method that takes arguments
    result              \* what that call returned or raised

vars ==
    <<live, expired, show_in_menus, menu_items, menu_class, root_page,
      max_levels, use_specific, top_level_items, pages_for_display,
      page_children_dict, computed, discarded, repeat_in_subnav,
      flat_menus, default_site, related_name, call, result>>

\* the rows of the database and the settings
db ==
    <<live, expired, show_in_menus, menu_items, menu_class, root_page,
      repeat_in_subnav, flat_menus, default_site, related_name>>

\* the state of one menu instance
menu ==
    <<max_levels, use_specific, top_level_items, pages_for_display,
      page_children_dict, computed, discarded>>

\* what the calls on the menu instance leave alone
outside == <<db, call, result>>

NoCall == [op |-> "none"]

NoResult == [op |-> "none"]

----------------------------------------------------------------------------
(* cached_property: an instance attribute that is absent until first read *)

NotCached == << >>

IsCached(c) == c # NotCached

Value(c) == c[1]

CachedProperties == {"top_level_items", "pages_for_display", "page_children_dict"}

----------------------------------------------------------------------------
(* get_menu_items_manager *)

\* related_name of the ParentalKey of the menu item models: the attribute of
\* a menu that holds its items
MenuAttributes == {"menu_items"}

\* the values the setting may be given
RelatedNames == {"menu_items", "custom_menu_items"}

\* faulty variant: a missing attribute is answered with a manager
get_menu_items_manager_swallowed == [op |-> "manager"]

\* AbstractMainMenu / AbstractFlatMenu.get_menu_items_manager: the manager,
\* or the ImproperlyConfigured it raises
get_menu_items_manager ==
    IF related_name \in MenuAttributes THEN [op |-> "manager"]
    ELSE [op |-> "ImproperlyConfigured", name |-> related_name,
          class |-> menu_class]

----------------------------------------------------------------------------
(* QuerySets *)

\* faulty variant: the filter forgets expired=False
get_base_page_queryset_no_expired ==
    {i \in PageIds : i \in live /\ i \in show_in_menus}

\* Page.objects.filter(live=True, expired=False, show_in_menus=True)
get_base_page_queryset ==
    {i \in PageIds : i \in live /\ i \notin expired /\ i \in show_in_menus}

RECURSIVE InPathOrder(_, _)
InPathOrder(ids, from) ==
    IF from > Len(PagePath) THEN << >>
    ELSE IF from \in ids THEN <<from>> \o InPathOrder(ids, from + 1)
    ELSE InPathOrder(ids, from + 1)

\* iterating a QuerySet: page objects in path order
Evaluate(qs, specific) ==
    LET order == InPathOrder(qs, 1)
    IN  [k \in 1..Len(order) |-> [id |-> order[k], specific |-> specific]]

NoPage == [id |-> 0, specific |-> FALSE]

\* the rows in ascending sort_order, rows of equal sort_order in the order
\* of creation
RECURSIVE order_by_sort_order(_)
order_by_sort_order(rows) ==
    IF rows = << >> THEN << >>
    ELSE LET first ==
                 CHOOSE k \in DOMAIN rows :
                     \A j \in DOMAIN rows :
                         \/ rows[k].sort_order < rows[j].sort_order
                         \/ rows[k].sort_order = rows[j].sort_order /\ k <= j
         IN  <<rows[first]>> \o
             order_by_sort_order(
                 SubSeq(rows, 1, first - 1)
                     \o SubSeq(rows, first + 1, Len(rows)))

\* self.get_menu_items_manager().for_display()
get_base_menuitem_queryset == order_by_sort_order(menu_items)

----------------------------------------------------------------------------
(* MenuWithMenuItems.top_level_items *)

\* faulty variant: an item whose page is filtered out is kept, without a page
RECURSIVE menu_item_list_keep(_, _)
menu_item_list_keep(items, pages_dict) ==
    IF items = << >> THEN << >>
    ELSE LET item == Head(items)
             rest == menu_item_list_keep(Tail(items), pages_dict)
         IN  IF item.link_page_id \in DOMAIN pages_dict
             THEN <<[item EXCEPT !.link_page = pages_dict[item.link_page_id]]>>
                  \o rest
             ELSE <<[item EXCEPT !.link_page = NoPage]>> \o rest

\* faulty variant: each item is put in front of the ones already collected
RECURSIVE menu_item_list_prepend(_, _)
menu_item_list_prepend(items, pages_dict) ==
    IF items = << >> THEN << >>
    ELSE LET item == Head(items)
             rest == menu_item_list_prepend(Tail(items), pages_dict)
         IN  IF item.link_page_id = 0
             THEN rest \o <<[item EXCEPT !.link_page = NoPage]>>
             ELSE IF item.link_page_id \in DOMAIN pages_dict
             THEN rest \o
                  <<[item EXCEPT !.link_page = pages_dict[item.link_page_id]]>>
             ELSE rest

\* the loop over menu_items that builds menu_item_list
RECURSIVE menu_item_list(_, _)
menu_item_list(items, pages_dict) ==
    IF items = << >> THEN << >>
    ELSE LET item == Head(items)
             rest == menu_item_list(Tail(items), pages_dict)
         IN  IF item.link_page_id = 0
             THEN <<[item EXCEPT !.link_page = NoPage]>> \o rest
             ELSE IF item.link_page_id \in DOMAIN pages_dict
             THEN <<[item EXCEPT !.link_page = pages_dict[item.link_page_id]]>>
                  \o rest
             ELSE rest

compute_top_level_items ==
    LET items == get_base_menuitem_queryset
        top_level_pages ==
            {i \in get_base_page_queryset :
                \E k \in DOMAIN items : items[k].link_page_id = i}
        specific == use_specific >= USE_SPECIFIC_TOP_LEVEL
        pages_dict ==
            [i \in top_level_pages |-> [id |-> i, specific |-> specific]]
    IN  menu_item_list(items, pages_dict)

----------------------------------------------------------------------------
(* get_pages_for_display *)

\* faulty variant: the branch starts two levels below the linked page
branch_skips_children(page_id, levels) ==
    {i \in PageIds :
        /\ depth(i) > depth(page_id) + 1
        /\ depth(i) < depth(page_id) + levels
        /\ startswith(path(i), path(page_id))}

\* faulty variant: depth__lte in place of depth__lt
branch_lte(page_id, levels) ==
    {i \in PageIds :
        /\ depth(i) > depth(page_id)
        /\ depth(i) <= depth(page_id) + levels
        /\ startswith(path(i), path(page_id))}

\* Page.objects.filter(depth__gt=.., depth__lt=.., path__startswith=..)
branch(page_id, levels) ==
    {i \in PageIds :
        /\ depth(i) > depth(page_id)
        /\ depth(i) < depth(page_id) + levels
        /\ startswith(path(i), path(page_id))}

\* faulty variant: allow_subnav is not consulted
RECURSIVE all_pages_any_item(_, _)
all_pages_any_item(items, levels) ==
    IF items = << >> THEN {}
    ELSE LET item == Head(items)
         IN  (IF /\ item.link_page_id # 0
                 /\ depth(item.link_page.id) >= SECTION_ROOT_DEPTH
              THEN branch(item.link_page.id, levels)
              ELSE {})
             \cup all_pages_any_item(Tail(items), levels)

RECURSIVE all_pages(_, _)
all_pages(items, levels) ==
    IF items = << >> THEN {}
    ELSE LET item == Head(items)
         IN  (IF /\ item.link_page_id # 0
                 /\ item.allow_subnav
                 /\ depth(item.link_page.id) >= SECTION_ROOT_DEPTH
              THEN branch(item.link_page.id, levels)
              ELSE {})
             \cup all_pages(Tail(items), levels)

\* MenuWithMenuItems.get_pages_for_display, given self.top_level_items
items_get_pages_for_display(tli) ==
    IF max_levels = 1 THEN Evaluate({}, FALSE)
    ELSE Evaluate(all_pages(tli, max_levels) \cap get_base_page_queryset,
                  use_specific = USE_SPECIFIC_ALWAYS)

\* faulty variant: specific pages from TOP_LEVEL on, as for top_level_items
root_get_pages_for_display_top_level ==
    Evaluate({i \in get_base_page_queryset :
                 /\ depth(i) > depth(root_page)
                 /\ depth(i) <= depth(root_page) + max_levels
                 /\ startswith(path(i), path(root_page))},
             use_specific >= USE_SPECIFIC_TOP_LEVEL)

\* MenuFromRootPage.get_pages_for_display
root_get_pages_for_display ==
    Evaluate({i \in get_base_page_queryset :
                 /\ depth(i) > depth(root_page)
                 /\ depth(i) <= depth(root_page) + max_levels
                 /\ startswith(path(i), path(root_page))},
             use_specific = USE_SPECIFIC_ALWAYS)

----------------------------------------------------------------------------
(* Menu.page_children_dict *)

\* faulty variant: a page is filed under its own path
RECURSIVE children_dict_own_path(_, _)
children_dict_own_path(pages, acc) ==
    IF pages = << >> THEN acc
    ELSE LET page == Head(pages)
             key  == path(page.id)
             old  == IF key \in DOMAIN acc THEN acc[key] ELSE << >>
         IN  children_dict_own_path(
                 Tail(pages),
                 [k \in DOMAIN acc \cup {key} |->
                     IF k = key THEN Append(old, page) ELSE acc[k]])

RECURSIVE children_dict(_, _)
children_dict(pages, acc) ==
    IF pages = << >> THEN acc
    ELSE LET page == Head(pages)
             key  == ParentPath(path(page.id))
             old  == IF key \in DOMAIN acc THEN acc[key] ELSE << >>
         IN  children_dict(
                 Tail(pages),
                 [k \in DOMAIN acc \cup {key} |->
                     IF k = key THEN Append(old, page) ELSE acc[k]])

EmptyDict == [k \in {} |-> << >>]

compute_page_children_dict(pages) == children_dict(pages, EmptyDict)

\* dict.get(key, [])
dict_get(d, key) == IF key \in DOMAIN d THEN d[key] ELSE << >>

----------------------------------------------------------------------------
(* Reading the cached properties: the state after the read *)

\* self.top_level_items
tli_after ==
    IF IsCached(top_level_items) THEN top_level_items
    ELSE <<compute_top_level_items>>

\* does evaluating pages_for_display read self.top_level_items?
pfd_reads_tli ==
    /\ ~IsCached(pages_for_display)
    /\ menu_class = "MenuWithMenuItems"
    /\ max_levels # 1

\* self.pages_for_display
pfd_after ==
    IF IsCached(pages_for_display) THEN pages_for_display
    ELSE IF menu_class = "MenuWithMenuItems"
    THEN <<items_get_pages_for_display(
              IF max_levels = 1 THEN << >> ELSE Value(tli_after))>>
    ELSE <<root_get_pages_for_display>>

\* self.page_children_dict
pcd_after ==
    IF IsCached(page_children_dict) THEN page_children_dict
    ELSE <<compute_page_children_dict(Value(pfd_after))>>

----------------------------------------------------------------------------
(* Operations *)

\* does evaluating top_level_items fail in get_menu_items_manager?
tli_raises ==
    /\ ~IsCached(top_level_items)
    /\ menu_class = "MenuWithMenuItems"
    /\ get_menu_items_manager.op # "manager"

pfd_raises == pfd_reads_tli /\ tli_raises

pcd_raises == ~IsCached(page_children_dict) /\ pfd_raises

\* the exception of get_menu_items_manager leaves the read: nothing is cached
Raises ==
    /\ result' = get_menu_items_manager
    /\ computed' = {}
    /\ discarded' = {}
    /\ UNCHANGED <<db, call, top_level_items, pages_for_display,
                   page_children_dict>>

\* for item in menu.top_level_items
ReadTopLevelItems ==
    /\ menu_class = "MenuWithMenuItems"
    /\ IF tli_raises THEN Raises
       ELSE /\ top_level_items' = tli_after
            /\ computed' = IF IsCached(top_level_items) THEN {}
                           ELSE {"top_level_items"}
            /\ discarded' = {}
            /\ UNCHANGED <<outside, pages_for_display, page_children_dict>>
    /\ UNCHANGED <<max_levels, use_specific>>

ComputedByPfd ==
    (IF IsCached(pages_for_display) THEN {} ELSE {"pages_for_display"})
    \cup (IF pfd_reads_tli /\ ~IsCached(top_level_items)
          THEN {"top_level_items"} ELSE {})

\* for p in menu.pages_for_display
ReadPagesForDisplay ==
    /\ IF pfd_raises THEN Raises
       ELSE /\ pages_for_display' = pfd_after
            /\ top_level_items' = IF pfd_reads_tli THEN tli_after
                                  ELSE top_level_items
            /\ computed' = ComputedByPfd
            /\ discarded' = {}
            /\ UNCHANGED <<outside, page_children_dict>>
    /\ UNCHANGED <<max_levels, use_specific>>

ComputedByPcd ==
    IF IsCached(page_children_dict) THEN {}
    ELSE {"page_children_dict"} \cup ComputedByPfd

ReadPcd ==
    /\ page_children_dict' = pcd_after
    /\ pages_for_display' =
          IF IsCached(page_children_dict) THEN pages_for_display
          ELSE pfd_after
    /\ top_level_items' =
          IF ~IsCached(page_children_dict) /\ pfd_reads_tli THEN tli_after
          ELSE top_level_items
    /\ computed' = ComputedByPcd
    /\ discarded' = {}

\* menu.page_children_dict
ReadPageChildrenDict ==
    /\ IF pcd_raises THEN Raises
       ELSE ReadPcd /\ UNCHANGED outside
    /\ UNCHANGED <<max_levels, use_specific>>

\* menu.get_children_for_page(page): the cached properties it reads, which
\* do not depend on the page asked for
GetChildrenForPage ==
    /\ IF menu_class = "MenuFromRootPage" /\ max_levels = 1
       THEN /\ pages_for_display' = pfd_after
            /\ computed' = ComputedByPfd
            /\ discarded' = {}
            /\ UNCHANGED <<outside, top_level_items, page_children_dict>>
       ELSE IF pcd_raises THEN Raises
       ELSE ReadPcd /\ UNCHANGED outside
    /\ UNCHANGED <<max_levels, use_specific>>

\* what get_children_for_page(page) returns, in the state the call leaves
get_children_for_page(page) ==
    IF menu_class = "MenuFromRootPage" /\ max_levels = 1
    THEN Value(pages_for_display)
    ELSE dict_get(Value(page_children_dict), path(page))

\* has get_children_for_page been called (are the caches it reads filled)?
children_read ==
    IF menu_class = "MenuFromRootPage" /\ max_levels = 1
    THEN IsCached(pages_for_display)
    ELSE IsCached(page_children_dict)

\* menu.page_has_children(page): the cached property it reads, which does
\* not depend on the page asked for
PageHasChildren ==
    /\ IF pcd_raises THEN Raises
       ELSE ReadPcd /\ UNCHANGED outside
    /\ UNCHANGED <<max_levels, use_specific>>

\* what page_has_children(page) returns, in the state the call leaves
page_has_children(page) == path(page) \in DOMAIN Value(page_children_dict)

\* the cached values of `names` that exist, i.e. that a `del` removes
CachedAmong(names) ==
    {n \in names :
        \/ n = "top_level_items" /\ IsCached(top_level_items)
        \/ n = "pages_for_display" /\ IsCached(pages_for_display)
        \/ n = "page_children_dict" /\ IsCached(page_children_dict)}

\* faulty variant: the children index is kept
clear_page_cache_pages_only ==
    /\ pages_for_display' = NotCached
    /\ page_children_dict' = page_children_dict

\* faulty variant: only the children index is deleted
clear_page_cache_children_only ==
    /\ pages_for_display' = pages_for_display
    /\ page_children_dict' = NotCached

\* Menu.clear_page_cache
clear_page_cache ==
    /\ pages_for_display' = NotCached
    /\ page_children_dict' = NotCached

\* faulty variant: the new value is stored and the page cache is kept
SetMaxLevels_no_clear(n) ==
    /\ max_levels' = n
    /\ computed' = {}
    /\ discarded' = {}
    /\ UNCHANGED <<outside, use_specific, top_level_items, pages_for_display,
                   page_children_dict>>

\* faulty variant: the page cache is cleared whether or not the value changes
SetMaxLevels_always(n) ==
    /\ max_levels' = n
    /\ clear_page_cache
    /\ computed' = {}
    /\ discarded' =
          CachedAmong({"pages_for_display", "page_children_dict"})
    /\ UNCHANGED <<outside, use_specific, top_level_items>>

\* menu.set_max_levels(n)
SetMaxLevels(n) ==
    /\ IF max_levels # n
       THEN /\ max_levels' = n
            /\ clear_page_cache
       ELSE UNCHANGED <<max_levels, pages_for_display, page_children_dict>>
    /\ computed' = {}
    /\ discarded' = {c \in CachedAmong(CachedProperties) :
                        \/ c = "pages_for_display"
                           /\ ~IsCached(pages_for_display')
                        \/ c = "page_children_dict"
                           /\ ~IsCached(page_children_dict')}
    /\ UNCHANGED <<outside, use_specific, top_level_items>>

\* faulty variant: the threshold is ALWAYS in place of TOP_LEVEL
must_clear_at_always(old, new) ==
    /\ new >= USE_SPECIFIC_ALWAYS
    /\ old < USE_SPECIFIC_ALWAYS

\* faulty variant: every change of use_specific discards the cached values
must_clear_on_change(old, new) == new # old

\* faulty variant: the pages are kept when top_level_items is discarded
SetUseSpecific_items_only(n) ==
    /\ use_specific' = n
    /\ top_level_items' =
          IF use_specific # n /\ n >= USE_SPECIFIC_TOP_LEVEL
                /\ use_specific < USE_SPECIFIC_TOP_LEVEL
          THEN NotCached ELSE top_level_items
    /\ computed' = {}
    /\ discarded' = {c \in CachedAmong({"top_level_items"}) :
                        ~IsCached(top_level_items')}
    /\ UNCHANGED <<outside, max_levels, pages_for_display,
                   page_children_dict>>

\* the test that makes set_use_specific discard the cached values
must_clear(old, new) ==
    /\ new >= USE_SPECIFIC_TOP_LEVEL
    /\ old < USE_SPECIFIC_TOP_LEVEL

\* menu.set_use_specific(n)
SetUseSpecific(n) ==
    /\ IF use_specific # n
       THEN /\ IF must_clear(use_specific, n)
               THEN /\ clear_page_cache
                    /\ top_level_items' = NotCached
               ELSE UNCHANGED <<top_level_items, pages_for_display,
                                page_children_dict>>
            /\ use_specific' = n
       ELSE UNCHANGED <<use_specific, top_level_items, pages_for_display,
                        page_children_dict>>
    /\ computed' = {}
    /\ discarded' = {c \in CachedAmong(CachedProperties) :
                        \/ c = "top_level_items"
                           /\ ~IsCached(top_level_items')
                        \/ c = "pages_for_display"
                           /\ ~IsCached(pages_for_display')
                        \/ c = "page_children_dict"
                           /\ ~IsCached(page_children_dict')}
    /\ UNCHANGED <<outside, max_levels>>

----------------------------------------------------------------------------
(* MenuWithMenuItems.add_menu_items_for_pages *)

\* faulty variant: the counter is not advanced
RECURSIVE new_items_same_order(_, _, _)
new_items_same_order(pages, i, allow_subnav) ==
    IF pages = << >> THEN << >>
    ELSE <<[link_page_id |-> Head(pages), allow_subnav |-> allow_subnav,
            sort_order |-> i, link_page |-> NoPage]>>
         \o new_items_same_order(Tail(pages), i, allow_subnav)

\* the loop over pagequeryset.all() that builds new_items_list
RECURSIVE new_items(_, _, _)
new_items(pages, i, allow_subnav) ==
    IF pages = << >> THEN << >>
    ELSE <<[link_page_id |-> Head(pages), allow_subnav |-> allow_subnav,
            sort_order |-> i, link_page |-> NoPage]>>
         \o new_items(Tail(pages), i + 1, allow_subnav)

\* menu.add_menu_items_for_pages(pagequeryset, allow_subnav)
AddMenuItemsForPages(pagequeryset, allow_subnav) ==
    /\ menu_class = "MenuWithMenuItems"
    /\ Len(menu_items) + Cardinality(pagequeryset) <= MaxRows
    /\ call' = [op |-> "add_menu_items_for_pages",
                pagequeryset |-> InPathOrder(pagequeryset, 1),
                allow_subnav |-> allow_subnav,
                count |-> Len(menu_items)]
    /\ IF get_menu_items_manager.op # "manager"
       THEN /\ result' = get_menu_items_manager
            /\ UNCHANGED menu_items
       ELSE /\ result' = NoResult
            /\ menu_items' =
                  menu_items \o new_items(InPathOrder(pagequeryset, 1),
                                          Len(menu_items), allow_subnav)
    /\ computed' = {}
    /\ discarded' = {}
    /\ UNCHANGED <<live, expired, show_in_menus, menu_class, root_page,
                   repeat_in_subnav, flat_menus, default_site,
                   related_name, max_levels,
                   use_specific, top_level_items, pages_for_display,
                   page_children_dict>>

----------------------------------------------------------------------------
(* Initial states: a menu instance just loaded or constructed *)

\* the item rows a menu is made of: a custom URL, the home page (above
\* SECTION_ROOT_DEPTH), section A with and without a sub-menu, section B
ItemRows ==
    {[link_page_id |-> 0, allow_subnav |-> TRUE, sort_order |-> 0,
      link_page |-> NoPage],
     [link_page_id |-> 1, allow_subnav |-> TRUE, sort_order |-> 0,
      link_page |-> NoPage],
     [link_page_id |-> 2, allow_subnav |-> TRUE, sort_order |-> 0,
      link_page |-> NoPage],
     [link_page_id |-> 2, allow_subnav |-> FALSE, sort_order |-> 0,
      link_page |-> NoPage],
     [link_page_id |-> 5, allow_subnav |-> TRUE, sort_order |-> 0,
      link_page |-> NoPage]}

RECURSIVE ItemLists(_)
ItemLists(n) ==
    IF n = 0 THEN {<< >>}
    ELSE LET shorter == ItemLists(n - 1)
         IN  shorter \cup
             {Append(s, [r EXCEPT !.sort_order = Len(s)]) :
                 s \in {t \in shorter : Len(t) = n - 1}, r \in ItemRows}

\* the pages that may fail the filter: section A (the linked page of an
\* item, the parent of A1) and its child A1 (the parent of A11)
HideCandidates == {2, 3}

HiddenSets == {h \in SUBSET HideCandidates : Cardinality(h) <= MaxHidden}

\* a menu instance over a tree of pages
MenuInit ==
    /\ \E h \in HiddenSets, why \in {"live", "expired", "show_in_menus"} :
          /\ live = IF why = "live" THEN PageIds \ h ELSE PageIds
          /\ expired = IF why = "expired" THEN h ELSE {}
          /\ show_in_menus =
                IF why = "show_in_menus" THEN PageIds \ h ELSE PageIds
    /\ menu_class \in {"MenuWithMenuItems", "MenuFromRootPage"}
    /\ IF menu_class = "MenuWithMenuItems"
       THEN /\ menu_items \in ItemLists(MaxItems)
            /\ root_page = 0
       ELSE /\ menu_items = << >>
            /\ root_page \in {1, 2, 5}
    /\ max_levels \in 1..MaxLevels
    /\ use_specific \in USE_SPECIFIC_VALUES
    /\ top_level_items = NotCached
    /\ pages_for_display = NotCached
    /\ page_children_dict = NotCached
    /\ computed = {}
    /\ discarded = {}

\* no call with arguments has been made
NoCallYet ==
    /\ call = NoCall
    /\ result = NoResult

Init ==
    /\ MenuInit
    /\ repeat_in_subnav = {}
    /\ flat_menus = {}
    /\ default_site = 0
    /\ related_name \in MenuAttributes
    /\ NoCallYet

Next ==
    \/ ReadTopLevelItems
    \/ ReadPagesForDisplay
    \/ ReadPageChildrenDict
    \/ GetChildrenForPage
    \/ PageHasChildren
    \/ \E n \in 1..MaxLevels : SetMaxLevels(n)
    \/ \E n \in USE_SPECIFIC_VALUES : SetUseSpecific(n)

Spec == Init /\ [][Next]_vars

----------------------------------------------------------------------------
(* A model-backed menu that is given more items *)

\* the pages handed to add_menu_items_for_pages: children of the sections
AddCandidates == {3, 6}

\* a model-backed menu whose pages all pass the base page filter
InitAdd ==
    /\ Init
    /\ menu_class = "MenuWithMenuItems"
    /\ get_base_page_queryset = PageIds
    /\ expired = {}

NextAdd ==
    \/ \E pagequeryset \in SUBSET AddCandidates, allow_subnav \in BOOLEAN :
          AddMenuItemsForPages(pagequeryset, allow_subnav)
    \/ ReadTopLevelItems

SpecAdd == InitAdd /\ [][NextAdd]_vars

----------------------------------------------------------------------------
(* MenuPage.modify_submenu_items *)

ACTIVE_CLASS == "active"

\* truth value of a string attribute
truthy(s) == s # ""

\* the items of the list that are repeated items
RepeatedItems(items) ==
    {k \in DOMAIN items : "is_repeated_item" \in DOMAIN items[k]}

\* Page.title of the pages of the tree
title == <<"Home", "A", "A1", "A11", "B", "B1">>

\* MenuPage.repeated_item_text of the pages of the tree: blank but for
\* section A
repeated_item_text == <<"", "Overview", "", "", "", "">>

\* copy(self) with the attributes set on it
extra_item(page, current_page, apply_active_classes) ==
    [id |-> page, specific |-> TRUE, is_repeated_item |-> TRUE,
     text |-> IF truthy(repeated_item_text[page])
              THEN repeated_item_text[page] ELSE title[page],
     active_class |-> IF apply_active_classes /\ page = current_page
                      THEN ACTIVE_CLASS ELSE ""]

\* faulty variant: allow_repeating_parents is not consulted
repeats_whenever_set(page, items, allow_repeating_parents) ==
    /\ items # << >>
    /\ page \in repeat_in_subnav

\* does modify_submenu_items insert the repeated item?
repeats(page, items, allow_repeating_parents) ==
    /\ allow_repeating_parents
    /\ items # << >>
    /\ page \in repeat_in_subnav

\* page.modify_submenu_items(menu.get_children_for_page(page), ...), once the
\* children index is cached: menu_items is the list the index holds for the
\* page, or a new empty list, and insert(0, extra) changes that very list
ModifySubmenuItems(page, current_page, allow_repeating_parents, apply_active_classes) ==
    /\ IsCached(page_children_dict)
    /\ ~(menu_class = "MenuFromRootPage" /\ max_levels = 1)
    /\ LET index == Value(page_children_dict)
           items == dict_get(index, path(page))
           extra == extra_item(page, current_page, apply_active_classes)
       IN  /\ call' = [op |-> "modify_submenu_items", page |-> page,
                       menu_items |-> items,
                       current_page |-> current_page,
                       allow_repeating_parents |-> allow_repeating_parents,
                       apply_active_classes |-> apply_active_classes]
           /\ IF repeats(page, items, allow_repeating_parents)
              THEN /\ Cardinality(RepeatedItems(items)) < MaxRepeats
                   /\ page_children_dict' =
                         <<[index EXCEPT ![path(page)] = <<extra>> \o items]>>
                   /\ result' = [op |-> "modify_submenu_items",
                                 menu_items |-> <<extra>> \o items]
              ELSE /\ UNCHANGED page_children_dict
                   /\ result' = [op |-> "modify_submenu_items",
                                 menu_items |-> items]
    /\ computed' = {}
    /\ discarded' = {}
    /\ UNCHANGED <<db, max_levels, use_specific, top_level_items,
                   pages_for_display>>

----------------------------------------------------------------------------
(* MenuItem.clean *)

\* ValidationError({field: [message]})
FieldError(field) == [op |-> "clean", raised |-> TRUE, fields |-> {field}]

\* ValidationError(message)
NonFieldError == [op |-> "clean", raised |-> TRUE, fields |-> {}]

\* clean returns without raising
Passed == [op |-> "clean", raised |-> FALSE, fields |-> {}]

\* faulty variant: a page together with a URL is let through
clean_page_and_url(item) ==
    IF truthy(item.link_url) /\ ~truthy(item.link_text)
    THEN FieldError("link_text")
    ELSE IF ~truthy(item.link_url) /\ item.link_page = 0
    THEN FieldError("link_url")
    ELSE Passed

\* MenuItem.clean
clean(item) ==
    IF truthy(item.link_url) /\ ~truthy(item.link_text)
    THEN FieldError("link_text")
    ELSE IF ~truthy(item.link_url) /\ item.link_page = 0
    THEN FieldError("link_url")
    ELSE IF truthy(item.link_url) /\ item.link_page # 0
    THEN NonFieldError
    ELSE Passed

\* item.clean()
Clean(item) ==
    /\ call' = [op |-> "clean", item |-> item]
    /\ result' = clean(item)
    /\ UNCHANGED <<db, menu>>

\* the menu items handed to clean: link_page 0 stands for no page
MenuItems ==
    [link_page : {0, 6}, link_url : {"", "test/"}, link_text : {"", "Test"}]

----------------------------------------------------------------------------
(* AbstractFlatMenu.get_for_site *)

\* None, where a menu is expected
NoMenu == [site |-> 0, handle |-> ""]

\* QuerySet.first()
first(rows) == IF rows = {} THEN NoMenu ELSE CHOOSE m \in rows : TRUE

\* faulty variant: the default site's menu is returned without being asked for
get_for_site_always_falls_back(handle, site, fall_back) ==
    LET found == first({m \in flat_menus :
                          m.handle = handle /\ m.site = site})
    IN  IF found = NoMenu /\ site # default_site
        THEN first({m \in flat_menus :
                       /\ m.handle = handle
                       /\ m.site # 0
                       /\ m.site = default_site})
        ELSE found

\* FlatMenu.get_for_site(handle, site, fall_back_to_default_site_menus)
get_for_site(handle, site, fall_back) ==
    LET found == first({m \in flat_menus :
                          m.handle = handle /\ m.site = site})
    IN  IF found = NoMenu /\ fall_back /\ site # default_site
        THEN first({m \in flat_menus :
                       /\ m.handle = handle
                       /\ m.site # 0
                       /\ m.site = default_site})
        ELSE found

GetForSite(handle, site, fall_back) ==
    /\ call' = [op |-> "get_for_site", handle |-> handle, site |-> site,
                fall_back |-> fall_back]
    /\ result' = [op |-> "get_for_site",
                  menu |-> get_for_site(handle, site, fall_back)]
    /\ UNCHANGED <<db, menu>>

----------------------------------------------------------------------------
(* Template names *)

\* format % args: a template name is the sequence of the pieces of the format
\* string and of the values put between them
RECURSIVE Format(_, _)
Format(pieces, args) ==
    IF args = << >> THEN <<Head(pieces)>>
    ELSE <<Head(pieces), Head(args)>> \o Format(Tail(pieces), Tail(args))

\* cls.get_least_specific_template_name(): the value of a setting
get_least_specific_template_name(cls) ==
    IF cls = "main" THEN <<"DEFAULT_MAIN_MENU_TEMPLATE">>
    ELSE IF cls = "flat" THEN <<"DEFAULT_FLAT_MENU_TEMPLATE">>
    ELSE IF cls = "section" THEN <<"DEFAULT_SECTION_MENU_TEMPLATE">>
    ELSE <<"DEFAULT_CHILDREN_MENU_TEMPLATE">>

get_least_specific_sub_menu_template_name == <<"DEFAULT_SUB_MENU_TEMPLATE">>

\* faulty variant: the names of the site come after the other names
Menu_get_template_names_site_last(menu_str, site_specific, hostname) ==
    << Format(<<"menus/", "/menu.html">>, <<menu_str>>),
       get_least_specific_template_name(menu_str) >>
    \o (IF site_specific /\ hostname # ""
         THEN << Format(<<"menus/", "/", "/menu.html">>,
                        <<hostname, menu_str>>),
                 Format(<<"menus/", "/", "_menu.html">>,
                        <<hostname, menu_str>>) >>
         ELSE << >>)

\* Menu.get_template_names; hostname "" stands for no current site
Menu_get_template_names(menu_str, site_specific, hostname) ==
    (IF site_specific /\ hostname # ""
     THEN << Format(<<"menus/", "/", "/menu.html">>, <<hostname, menu_str>>),
             Format(<<"menus/", "/", "_menu.html">>, <<hostname, menu_str>>) >>
     ELSE << >>)
    \o << Format(<<"menus/", "/menu.html">>, <<menu_str>>),
          get_least_specific_template_name(menu_str) >>

\* Menu.get_sub_menu_template_names
Menu_get_sub_menu_template_names(menu_str, site_specific, hostname) ==
    (IF site_specific /\ hostname # ""
     THEN << Format(<<"menus/", "/", "/sub_menu.html">>,
                    <<hostname, menu_str>>),
             Format(<<"menus/", "/", "_sub_menu.html">>,
                    <<hostname, menu_str>>),
             Format(<<"menus/", "/sub_menu.html">>, <<hostname>>) >>
     ELSE << >>)
    \o << Format(<<"menus/", "/sub_menu.html">>, <<menu_str>>),
          Format(<<"menus/", "_sub_menu.html">>, <<menu_str>>),
          get_least_specific_sub_menu_template_name >>

\* AbstractFlatMenu.get_template_names
FlatMenu_get_template_names(handle, site_specific, hostname) ==
    (IF site_specific /\ hostname # ""
     THEN << Format(<<"menus/", "/flat/", "/menu.html">>,
                    <<hostname, handle>>),
             Format(<<"menus/", "/flat/", ".html">>, <<hostname, handle>>),
             Format(<<"menus/", "/", "/menu.html">>, <<hostname, handle>>),
             Format(<<"menus/", "/", ".html">>, <<hostname, handle>>),
             Format(<<"menus/", "/flat/menu.html">>, <<hostname>>),
             Format(<<"menus/", "/flat/default.html">>, <<hostname>>),
             Format(<<"menus/", "/flat_menu.html">>, <<hostname>>) >>
     ELSE << >>)
    \o << Format(<<"menus/flat/", "/menu.html">>, <<handle>>),
          Format(<<"menus/flat/", ".html">>, <<handle>>),
          Format(<<"menus/", "/menu.html">>, <<handle>>),
          Format(<<"menus/", ".html">>, <<handle>>),
          <<"menus/flat/default.html">>,
          <<"menus/flat/menu.html">>,
          get_least_specific_template_name("flat") >>

\* AbstractFlatMenu.get_sub_menu_template_names
FlatMenu_get_sub_menu_template_names(handle, site_specific, hostname) ==
    (IF site_specific /\ hostname # ""
     THEN << Format(<<"menus/", "/flat/", "/sub_menu.html">>,
                    <<hostname, handle>>),
             Format(<<"menus/", "/flat/", "_sub_menu.html">>,
                    <<hostname, handle>>),
             Format(<<"menus/", "/", "/sub_menu.html">>, <<hostname, handle>>),
             Format(<<"menus/", "/", "_sub_menu.html">>, <<hostname, handle>>),
             Format(<<"menus/", "/flat/sub_menu.html">>, <<hostname>>),
             Format(<<"menus/", "/sub_menu.html">>, <<hostname>>) >>
     ELSE << >>)
    \o << Format(<<"menus/flat/", "/sub_menu.html">>, <<handle>>),
          Format(<<"menus/flat/", "_sub_menu.html">>, <<handle>>),
          Format(<<"menus/", "/sub_menu.html">>, <<handle>>),
          Format(<<"menus/", "_sub_menu.html">>, <<handle>>),
          <<"menus/flat/sub_menu.html">>,
          get_least_specific_sub_menu_template_name >>

\* menu.get_template_names(request), under the setting
\* SITE_SPECIFIC_TEMPLATE_DIRS
GetTemplateNames(m, site_specific, hostname) ==
    /\ call' = [op |-> "get_template_names", menu |-> m,
                site_specific |-> site_specific, hostname |-> hostname]
    /\ result' =
          [op |-> "get_template_names",
           names |-> IF m.menu_short_name = "flat"
                     THEN FlatMenu_get_template_names(
                              m.handle, site_specific, hostname)
                     ELSE Menu_get_template_names(
                              m.menu_short_name, site_specific, hostname)]
    /\ UNCHANGED <<db, menu>>

\* menu.get_sub_menu_template_names(request)
GetSubMenuTemplateNames(m, site_specific, hostname) ==
    /\ call' = [op |-> "get_sub_menu_template_names", menu |-> m,
                site_specific |-> site_specific, hostname |-> hostname]
    /\ result' =
          [op |-> "get_sub_menu_template_names",
           names |-> IF m.menu_short_name = "flat"
                     THEN FlatMenu_get_sub_menu_template_names(
                              m.handle, site_specific, hostname)
                     ELSE Menu_get_sub_menu_template_names(
                              m.menu_short_name, site_specific, hostname)]
    /\ UNCHANGED <<db, menu>>

----------------------------------------------------------------------------
(* api.v1.form_fields: UseSpecificChoiceField, MaxLevelsChoiceField *)

\* a raw value is a string: the sequence of its characters
Digits == <<"0", "1", "2", "3", "4", "5">>

Characters == {Digits[i] : i \in 1..Len(Digits)} \cup {"x"}

RECURSIVE Strings(_)
\* the strings of at most n characters
Strings(n) ==
    IF n = 0 THEN {<<>>}
    ELSE LET shorter == Strings(n - 1)
         IN  shorter \cup {Append(s, c) : s \in shorter, c \in Characters}

\* str(n) of a one-digit integer
str(n) == <<Digits[n + 1]>>

IsDigit(c) == \E i \in 1..Len(Digits) : Digits[i] = c

DigitValue(c) == (CHOOSE i \in 1..Len(Digits) : Digits[i] = c) - 1

RECURSIVE int(_)
\* int(s) of a string of decimal digits; -1 stands for its ValueError
int(s) ==
    IF s = <<>> \/ \E i \in 1..Len(s) : ~IsDigit(s[i]) THEN -1
    ELSE IF Len(s) = 1 THEN DigitValue(s[1])
    ELSE 10 * int(SubSeq(s, 1, Len(s) - 1)) + DigitValue(s[Len(s)])

ChoiceFields == {"UseSpecificChoiceField", "MaxLevelsChoiceField"}

\* the choices of a field, without the empty choice put first
choices(field) ==
    IF field = "UseSpecificChoiceField" THEN USE_SPECIFIC_VALUES
    ELSE MAX_LEVELS_CHOICES

\* faulty variant: a value is compared with the choices as a number
valid_value_as_number(field, value) ==
    value = <<>> \/ int(value) \in choices(field)

\* ChoiceField.valid_value: the text of the value is the text of a choice
valid_value(field, value) ==
    value = <<>> \/ \E k \in choices(field) : str(k) = value

\* default_error_messages['invalid_choice']
invalid_choice(field, value) ==
    [op |-> "ValidationError", code |-> "invalid_choice", value |-> value,
     one_of |-> choices(field)]

\* TypedChoiceField.clean of a field built with the defaults of __init__:
\* coerce is int and empty_value is None
TypedChoiceField_clean(field, required, value) ==
    IF value = <<>>
    THEN IF required
         THEN [op |-> "ValidationError", code |-> "required"]
         ELSE [op |-> "cleaned", value |-> "None"]
    ELSE IF ~valid_value(field, value) \/ int(value) = -1
    THEN invalid_choice(field, value)
    ELSE [op |-> "cleaned", value |-> int(value)]

\* field.clean(value)
CleanChoiceField(field, required, value) ==
    /\ call' = [op |-> "TypedChoiceField.clean", field |-> field,
                required |-> required, value |-> value]
    /\ result' = TypedChoiceField_clean(field, required, value)
    /\ UNCHANGED <<db, menu>>

----------------------------------------------------------------------------
(* api.v1.form_fields: PageChoiceField, SiteChoiceField *)

\* needle in haystack, of two strings
in(needle, haystack) ==
    \E i \in 0..(Len(haystack) - Len(needle)) :
        SubSeq(haystack, i + 1, i + Len(needle)) = needle

ModelChoiceFields == {"PageChoiceField", "SiteChoiceField"}

\* the querysets a caller passes: sets of ids of pages or of sites
Querysets == SUBSET {1, 2}

\* the keyword arguments of a call: with a queryset or without one
Kwargs == {<< >>} \cup {[queryset |-> qs] : qs \in Querysets}

\* kwargs after the test of __init__, which is made on two string literals
kwargs_given(kwargs) ==
    IF ~in(<<"q", "u", "e", "r", "y", "s", "e", "t">>,
           <<"k", "w", "a", "r", "g", "s">>)
    THEN [queryset |-> {}]
    ELSE kwargs

\* PageChoiceField(**kwargs), SiteChoiceField(**kwargs): the field built by
\* ModelChoiceField.__init__, which requires a queryset
ModelChoiceField(field, kwargs) ==
    LET given == kwargs_given(kwargs)
    IN  IF "queryset" \in DOMAIN given
        THEN [op |-> "field", queryset |-> given.queryset]
        ELSE [op |-> "TypeError"]

NewModelChoiceField(field, kwargs) ==
    /\ call' = [op |-> "ModelChoiceField.__init__", field |-> field,
                kwargs |-> kwargs]
    /\ result' = ModelChoiceField(field, kwargs)
    /\ UNCHANGED <<db, menu>>

----------------------------------------------------------------------------
(* api.v1.views: MenuGeneratorView and its subclasses *)

\* settings.models and settings.objects: the menu classes in use
MAIN_MENU_MODEL == "MainMenu"
FLAT_MENU_MODEL == "FlatMenu"
CHILDREN_MENU_CLASS == "ChildrenMenu"
SECTION_MENU_CLASS == "SectionMenu"

MenuClasses ==
    {MAIN_MENU_MODEL, FLAT_MENU_MODEL, CHILDREN_MENU_CLASS,
     SECTION_MENU_CLASS}

Views ==
    {"MainMenuGeneratorView", "FlatMenuGeneratorView",
     "ChildrenMenuGeneratorView", "SectionMenuGeneratorView"}

\* the menu_class attribute of each view
get_menu_class(view) ==
    CASE view = "MainMenuGeneratorView" -> MAIN_MENU_MODEL
      [] view = "FlatMenuGeneratorView" -> MAIN_MENU_MODEL
      [] view = "ChildrenMenuGeneratorView" -> CHILDREN_MENU_CLASS
      [] view = "SectionMenuGeneratorView" -> SECTION_MENU_CLASS

\* the menu_serializer_class attribute of each view
get_menu_serializer_class(view) ==
    CASE view = "MainMenuGeneratorView" -> "MainMenuSerializer"
      [] view = "FlatMenuGeneratorView" -> "FlatMenuSerializer"
      [] view = "ChildrenMenuGeneratorView" -> "ChildrenMenuSerializer"
      [] view = "SectionMenuGeneratorView" -> "SectionMenuSerializer"

\* Meta.model of the serializers of the model-backed menus
Meta_model(serializer) ==
    CASE serializer = "MainMenuSerializer" -> MAIN_MENU_MODEL
      [] serializer = "FlatMenuSerializer" -> FLAT_MENU_MODEL

\* the fields of an argument form that may be in error
FormFields == {"max_levels", "use_specific"}

\* no menu instance has been asked for
Unresolved == [class |-> "unresolved"]

\* no serializer has been made
Unserialized == [serializer |-> "none"]

\* cls._get_render_prepared_object(dummy_context, **data), where found is the
\* set of menu classes that have an object matching the values
_get_render_prepared_object(cls, found) ==
    IF cls \in found THEN [class |-> cls] ELSE [class |-> "None"]

\* faulty variant: the menu instance is resolved before the form is looked at
get_resolves_first(view, errors, found) ==
    LET cls == get_menu_class(view)
        menu_instance == _get_render_prepared_object(cls, found)
    IN  IF menu_instance.class = "None"
        THEN [op |-> "NotFound", class_name |-> cls, detail |-> {},
              menu_instance |-> menu_instance, data |-> Unserialized]
        ELSE IF errors # {}
        THEN [op |-> "ValidationError", class_name |-> "", detail |-> errors,
              menu_instance |-> menu_instance, data |-> Unserialized]
        ELSE [op |-> "Response", class_name |-> "", detail |-> {},
              menu_instance |-> menu_instance,
              data |-> [serializer |-> get_menu_serializer_class(view),
                        instance |-> menu_instance]]

\* MenuGeneratorView.get, with get_menu_instance: what it raises or returns,
\* the menu instance it has resolved and what it has serialized.  errors is
\* form.errors, the names of the fields in error
get(view, errors, found) ==
    IF errors # {}
    THEN [op |-> "ValidationError", class_name |-> "", detail |-> errors,
          menu_instance |-> Unresolved, data |-> Unserialized]
    ELSE LET cls == get_menu_class(view)
             menu_instance == _get_render_prepared_object(cls, found)
         IN  IF menu_instance.class = "None"
             THEN [op |-> "NotFound", class_name |-> cls, detail |-> {},
                   menu_instance |-> menu_instance, data |-> Unserialized]
             ELSE [op |-> "Response", class_name |-> "", detail |-> {},
                   menu_instance |-> menu_instance,
                   data |-> [serializer |-> get_menu_serializer_class(view),
                             instance |-> menu_instance]]

\* a GET request to a view
Get(view, errors, found) ==
    /\ call' = [op |-> "get", view |-> view, errors |-> errors,
                found |-> found]
    /\ result' = get(view, errors, found)
    /\ UNCHANGED <<db, menu>>

----------------------------------------------------------------------------
(* Calls that read no cached property of a menu *)

\* a menu instance as its class defines it, with nothing evaluated
IdleMenu ==
    /\ live = PageIds
    /\ expired = {}
    /\ show_in_menus = PageIds
    /\ menu_items = << >>
    /\ menu_class = "MenuWithMenuItems"
    /\ root_page = 0
    /\ max_levels = 1
    /\ use_specific = USE_SPECIFIC_AUTO
    /\ top_level_items = NotCached
    /\ pages_for_display = NotCached
    /\ page_children_dict = NotCached
    /\ computed = {}
    /\ discarded = {}

Sites == 1..MaxSites

Handles == {"footer", "contact"}

\* unique_together = ("site", "handle")
FlatMenuRows == [site : Sites, handle : Handles]

\* Site.hostname of the sites a request may come to
Hostnames == {"a.example", "b.example"}

\* the menus asked for template names: one of each class that is not a flat
\* menu, and a flat menu for each handle
MenuObjects ==
    {[menu_short_name |-> c, handle |-> ""] :
        c \in {"main", "section", "children"}}
    \cup {[menu_short_name |-> "flat", handle |-> h] : h \in Handles}

InitCalls ==
    /\ IdleMenu
    /\ repeat_in_subnav = {}
    /\ flat_menus \in SUBSET FlatMenuRows
    /\ default_site \in Sites \cup {0}
    /\ related_name \in MenuAttributes
    /\ NoCallYet

NextCalls ==
    \/ \E item \in MenuItems : Clean(item)
    \/ \E handle \in Handles, site \in Sites, fall_back \in BOOLEAN :
          GetForSite(handle, site, fall_back)
    \/ \E m \in MenuObjects, site_specific \in BOOLEAN,
          hostname \in Hostnames \cup {""} :
          GetTemplateNames(m, site_specific, hostname)
    \/ \E m \in MenuObjects, site_specific \in BOOLEAN,
          hostname \in Hostnames \cup {""} :
          GetSubMenuTemplateNames(m, site_specific, hostname)

SpecCalls == InitCalls /\ [][NextCalls]_vars

----------------------------------------------------------------------------
(* The API: form fields and views *)

InitApi ==
    /\ IdleMenu
    /\ repeat_in_subnav = {}
    /\ flat_menus = {}
    /\ default_site = 0
    /\ related_name \in MenuAttributes
    /\ NoCallYet

NextApi ==
    \/ \E field \in ChoiceFields, required \in BOOLEAN,
          value \in Strings(MaxChars) :
          CleanChoiceField(field, required, value)
    \/ \E field \in ModelChoiceFields, kwargs \in Kwargs :
          NewModelChoiceField(field, kwargs)
    \/ \E view \in Views, errors \in SUBSET FormFields,
          found \in SUBSET MenuClasses :
          Get(view, errors, found)

SpecApi == InitApi /\ [][NextApi]_vars

----------------------------------------------------------------------------
(* A model-backed menu under either value of the related name setting *)

\* menu.get_menu_items_manager()
GetMenuItemsManager ==
    /\ menu_class = "MenuWithMenuItems"
    /\ call' = [op |-> "get_menu_items_manager"]
    /\ result' = get_menu_items_manager
    /\ UNCHANGED <<db, menu>>

\* a model-backed menu of at most one item whose pages all pass the base
\* page filter
InitSettings ==
    /\ MenuInit
    /\ menu_class = "MenuWithMenuItems"
    /\ Len(menu_items) <= 1
    /\ get_base_page_queryset = PageIds
    /\ expired = {}
    /\ repeat_in_subnav = {}
    /\ flat_menus = {}
    /\ default_site = 0
    /\ related_name \in RelatedNames
    /\ NoCallYet

NextSettings ==
    \/ GetMenuItemsManager
    \/ ReadTopLevelItems
    \/ ReadPagesForDisplay
    \/ \E pagequeryset \in SUBSET AddCandidates, allow_subnav \in BOOLEAN :
          AddMenuItemsForPages(pagequeryset, allow_subnav)

SpecSettings == InitSettings /\ [][NextSettings]_vars

----------------------------------------------------------------------------
(* A menu whose sub-menus are given repeated parent items *)

\* the MenuPages that may have repeat_in_subnav set: the sections
RepeatCandidates == {2, 5}

\* a root-page-based menu, or a menu of at most one item, whose pages all
\* pass the base page filter
InitSubmenu ==
    /\ MenuInit
    /\ Len(menu_items) <= 1
    /\ get_base_page_queryset = PageIds
    /\ expired = {}
    /\ repeat_in_subnav \in SUBSET RepeatCandidates
    /\ flat_menus = {}
    /\ default_site = 0
    /\ related_name \in MenuAttributes
    /\ NoCallYet

NextSubmenu ==
    \/ GetChildrenForPage
    \/ PageHasChildren
    \/ \E page \in PageIds, current_page \in RepeatCandidates,
          allow_repeating_parents \in BOOLEAN,
          apply_active_classes \in BOOLEAN :
          ModifySubmenuItems(page, current_page, allow_repeating_parents,
                             apply_active_classes)

SpecSubmenu == InitSubmenu /\ [][NextSubmenu]_vars

----------------------------------------------------------------------------
(* Vocabulary of the properties *)

ItemsMenu == menu_class = "MenuWithMenuItems"

RootMenu == menu_class = "MenuFromRootPage"

\* the ids of the pages of an evaluated QuerySet
Ids(pages) == {pages[k].id : k \in DOMAIN pages}

\* every page of the list is a specific (non-base-type) page
AllSpecific(pages) == \A k \in DOMAIN pages : pages[k].specific

\* the items of the list that link to a page
Linked(items) == {k \in DOMAIN items : items[k].link_page_id # 0}

\* every linked page attached to an item is a specific page
LinkedSpecific(items) == \A k \in Linked(items) : items[k].link_page.specific

\* the pages directly below page i that pass the base page filter
VisibleChildren(i) ==
    {c \in get_base_page_queryset : ParentPath(path(c)) = path(i)}

----------------------------------------------------------------------------
(* C1 *)

\* C1, as stated: for every menu kind, whenever max_levels = 1,
\* pages_for_display is empty and get_children_for_page(p) returns an empty
\* collection for every page p.
C1_Original ==
    max_levels = 1 =>
        /\ IsCached(pages_for_display) => Value(pages_for_display) = << >>
        /\ children_read =>
               \A p \in PageIds : get_children_for_page(p) = << >>

\* C1, amended: for a model-backed menu, whenever max_levels = 1,
\* pages_for_display is empty and get_children_for_page(p) is empty for every
\* page p; for a root-page-based menu with max_levels = 1, pages_for_display
\* holds exactly the root page's children that pass the base page filter and
\* get_children_for_page(p) returns that list for every page p.
C1_MaxLevelsOne ==
    max_levels = 1 =>
        /\ ItemsMenu =>
               /\ IsCached(pages_for_display) =>
                      Value(pages_for_display) = << >>
               /\ children_read =>
                      \A p \in PageIds : get_children_for_page(p) = << >>
        /\ RootMenu /\ IsCached(pages_for_display) =>
               /\ Ids(Value(pages_for_display)) = VisibleChildren(root_page)
               /\ \A p \in PageIds :
                      Ids(get_children_for_page(p)) = VisibleChildren(root_page)

\* a model-backed menu with max_levels = 1 whose children index was built,
\* although an item with a sub-menu links to a page with displayable children
C1_Witness ==
    /\ ItemsMenu
    /\ max_levels = 1
    /\ IsCached(page_children_dict)
    /\ IsCached(top_level_items)
    /\ \E k \in Linked(Value(top_level_items)) :
          /\ Value(top_level_items)[k].allow_subnav
          /\ depth(Value(top_level_items)[k].link_page_id)
                >= SECTION_ROOT_DEPTH
          /\ VisibleChildren(Value(top_level_items)[k].link_page_id) # {}

----------------------------------------------------------------------------
(* C2 *)

\* C2: on a model-backed menu the cached values are never stale relative to
\* use_specific: while use_specific is ALWAYS pages_for_display holds only
\* specific pages, and while use_specific is TOP_LEVEL or ALWAYS every linked
\* page of top_level_items is specific.
C2_NeverStale ==
    ItemsMenu =>
        /\ use_specific = USE_SPECIFIC_ALWAYS /\ IsCached(pages_for_display)
               => AllSpecific(Value(pages_for_display))
        /\ use_specific >= USE_SPECIFIC_TOP_LEVEL /\ IsCached(top_level_items)
               => LinkedSpecific(Value(top_level_items))

----------------------------------------------------------------------------
(* C3 *)

\* C3: a set_use_specific call that takes use_specific from below TOP_LEVEL
\* to TOP_LEVEL or above leaves top_level_items, pages_for_display and
\* page_children_dict uncached, so that whenever top_level_items is cached
\* while use_specific >= TOP_LEVEL every linked page on it is specific.
C3_ThresholdInvalidates ==
    /\ [][(/\ use_specific < USE_SPECIFIC_TOP_LEVEL
            /\ use_specific' >= USE_SPECIFIC_TOP_LEVEL)
           => /\ top_level_items' = NotCached
              /\ pages_for_display' = NotCached
              /\ page_children_dict' = NotCached]_vars
    /\ [](use_specific >= USE_SPECIFIC_TOP_LEVEL /\ IsCached(top_level_items)
            => LinkedSpecific(Value(top_level_items)))

\* the last call raised use_specific across TOP_LEVEL and deleted all three
\* cached values
C3_Witness ==
    /\ ItemsMenu
    /\ use_specific >= USE_SPECIFIC_TOP_LEVEL
    /\ discarded = CachedProperties

----------------------------------------------------------------------------
(* C4 *)

\* C4: a set_use_specific call that lowers use_specific leaves
\* top_level_items, pages_for_display and page_children_dict as they were
\* and evaluates nothing.
C4_LoweringKeepsCache ==
    [][use_specific' < use_specific
        => /\ UNCHANGED <<top_level_items, pages_for_display,
                          page_children_dict>>
           /\ computed' = {}
           /\ discarded' = {}]_vars

\* specific pages are still cached although use_specific is below TOP_LEVEL:
\* they were fetched before use_specific was lowered
C4_Witness ==
    /\ ItemsMenu
    /\ use_specific < USE_SPECIFIC_TOP_LEVEL
    /\ IsCached(top_level_items)
    /\ \E k \in Linked(Value(top_level_items)) :
          Value(top_level_items)[k].link_page.specific
    /\ IsCached(pages_for_display)
    /\ Value(pages_for_display) # << >>
    /\ AllSpecific(Value(pages_for_display))
    /\ IsCached(page_children_dict)
    /\ computed = {}

----------------------------------------------------------------------------
(* C5 *)

\* pages_for_display computed afresh from the current options
pfd_fresh ==
    IF ItemsMenu
    THEN items_get_pages_for_display(
             IF max_levels = 1 THEN << >> ELSE Value(tli_after))
    ELSE root_get_pages_for_display

\* C5: a set_max_levels call that changes max_levels leaves
\* pages_for_display and page_children_dict uncached and top_level_items and
\* use_specific as they were, so that a cached pages_for_display always
\* holds the pages the current max_levels selects.
C5_MaxLevelsInvalidates ==
    /\ [][max_levels' # max_levels
           => /\ pages_for_display' = NotCached
              /\ page_children_dict' = NotCached
              /\ UNCHANGED <<top_level_items, use_specific>>]_vars
    /\ [](IsCached(pages_for_display)
            => Ids(Value(pages_for_display)) = Ids(pfd_fresh))

\* the last call deleted the cached pages and children index and kept the
\* cached top_level_items
C5_Witness ==
    /\ ItemsMenu
    /\ discarded = {"pages_for_display", "page_children_dict"}
    /\ IsCached(top_level_items)
    /\ Linked(Value(top_level_items)) # {}

----------------------------------------------------------------------------
(* C6 *)

\* C6: a cached property is evaluated only when it is not cached, and a call
\* that changes neither max_levels nor use_specific (a read, or a setter
\* called with the value in effect) leaves every cached value as it was.
C6_ComputedOnce ==
    [][/\ IsCached(top_level_items) => "top_level_items" \notin computed'
       /\ IsCached(pages_for_display) => "pages_for_display" \notin computed'
       /\ IsCached(page_children_dict)
             => "page_children_dict" \notin computed'
       /\ (max_levels' = max_levels /\ use_specific' = use_specific)
             => /\ IsCached(top_level_items)
                      => top_level_items' = top_level_items
                /\ IsCached(pages_for_display)
                      => pages_for_display' = pages_for_display
                /\ IsCached(page_children_dict)
                      => page_children_dict' = page_children_dict]_vars

\* all three values are cached and the last call evaluated and deleted none
C6_Witness ==
    /\ ItemsMenu
    /\ IsCached(top_level_items)
    /\ IsCached(pages_for_display)
    /\ Value(pages_for_display) # << >>
    /\ IsCached(page_children_dict)
    /\ computed = {}
    /\ discarded = {}

----------------------------------------------------------------------------
(* C7 *)

\* C7: set_use_specific never discards a cached top_level_items whose linked
\* pages are already specific, nor a cached pages_for_display whose pages
\* are already specific.
C7_SpecificNeverDiscarded ==
    [][use_specific' # use_specific
        => /\ (/\ IsCached(top_level_items)
               /\ Linked(Value(top_level_items)) # {}
               /\ LinkedSpecific(Value(top_level_items)))
                 => top_level_items' = top_level_items
           /\ (/\ IsCached(pages_for_display)
               /\ Value(pages_for_display) # << >>
               /\ AllSpecific(Value(pages_for_display)))
                 => pages_for_display' = pages_for_display]_vars

----------------------------------------------------------------------------
(* C8 *)

\* C8: every page of pages_for_display and every linked page attached to an
\* item of top_level_items is live, not expired and has show_in_menus set.
C8_BaseFilter ==
    /\ IsCached(pages_for_display) =>
           \A i \in Ids(Value(pages_for_display)) :
               i \in live /\ i \notin expired /\ i \in show_in_menus
    /\ IsCached(top_level_items) =>
           \A k \in Linked(Value(top_level_items)) :
               LET i == Value(top_level_items)[k].link_page.id
               IN  i \in live /\ i \notin expired /\ i \in show_in_menus

\* pages are cached while a page in the depth range of an item's branch
\* fails the filter
C8_Witness ==
    /\ ItemsMenu
    /\ IsCached(top_level_items)
    /\ IsCached(pages_for_display)
    /\ Value(pages_for_display) # << >>
    /\ all_pages(Value(top_level_items), max_levels)
          \ get_base_page_queryset # {}

----------------------------------------------------------------------------
(* C9 *)

\* C9: for a model-backed menu with max_levels > 1, pages_for_display is
\* exactly the set of pages p that pass the base page filter and for which
\* some item of top_level_items has allow_subnav, a linked page q with
\* q.depth >= SECTION_ROOT_DEPTH, q.path a prefix of p.path and
\* q.depth < p.depth < q.depth + max_levels.
C9_ItemsPages ==
    ItemsMenu /\ max_levels > 1 /\ IsCached(pages_for_display) =>
        /\ IsCached(top_level_items)
        /\ Ids(Value(pages_for_display)) =
              {p \in PageIds :
                  /\ p \in live /\ p \notin expired /\ p \in show_in_menus
                  /\ \E k \in Linked(Value(top_level_items)) :
                        LET item == Value(top_level_items)[k]
                            q == item.link_page.id
                        IN  /\ item.allow_subnav
                            /\ depth(q) >= SECTION_ROOT_DEPTH
                            /\ startswith(path(p), path(q))
                            /\ depth(q) < depth(p)
                            /\ depth(p) < depth(q) + max_levels}

\* section A's child is among the pages and its grandchild, which passes the
\* filter, is beyond the depth range
C9_Witness ==
    /\ ItemsMenu
    /\ max_levels > 1
    /\ IsCached(pages_for_display)
    /\ 3 \in Ids(Value(pages_for_display))
    /\ 4 \in get_base_page_queryset
    /\ 4 \notin Ids(Value(pages_for_display))

----------------------------------------------------------------------------
(* C10 *)

\* the pages a root-page-based menu selects
RootRange ==
    {p \in PageIds :
        /\ p \in live /\ p \notin expired /\ p \in show_in_menus
        /\ startswith(path(p), path(root_page))
        /\ depth(root_page) < depth(p)
        /\ depth(p) <= depth(root_page) + max_levels}

\* C10, as stated: for a root-page-based menu, pages_for_display is exactly
\* the set of pages that pass the base page filter, have root_page.path as a
\* path prefix and a depth in (root_page.depth, root_page.depth + max_levels],
\* and its pages are specific exactly when use_specific = ALWAYS.
C10_Original ==
    RootMenu /\ IsCached(pages_for_display) =>
        /\ Ids(Value(pages_for_display)) = RootRange
        /\ \A k \in DOMAIN Value(pages_for_display) :
              Value(pages_for_display)[k].specific
                <=> use_specific = USE_SPECIFIC_ALWAYS

\* C10, amended: for a root-page-based menu, pages_for_display is exactly
\* that set of pages, and its pages are specific exactly when use_specific
\* was ALWAYS at the time pages_for_display was evaluated.
C10_RootPages ==
    /\ [](RootMenu /\ IsCached(pages_for_display)
            => Ids(Value(pages_for_display)) = RootRange)
    /\ [][RootMenu /\ "pages_for_display" \in computed'
           => \A k \in DOMAIN Value(pages_for_display') :
                 Value(pages_for_display')[k].specific
                   <=> use_specific' = USE_SPECIFIC_ALWAYS]_vars

\* a menu rooted at section A has just evaluated its specific pages, and A's
\* grandchild, which passes the filter, is beyond the depth range
C10_Witness ==
    /\ RootMenu
    /\ root_page = 2
    /\ "pages_for_display" \in computed
    /\ AllSpecific(Value(pages_for_display))
    /\ 3 \in Ids(Value(pages_for_display))
    /\ 4 \in get_base_page_queryset
    /\ 4 \notin Ids(Value(pages_for_display))

----------------------------------------------------------------------------
(* C11 *)

\* the pages strictly below page q
Descendants(q) ==
    {p \in PageIds : startswith(path(p), path(q)) /\ depth(p) > depth(q)}

----------------------------------------------------------------------------
(* C12 *)

\* the rows of the menu-item query that top_level_items keeps
Eligible ==
    {k \in DOMAIN get_base_menuitem_queryset :
        LET row == get_base_menuitem_queryset[k]
        IN  \/ row.link_page_id = 0
            \/ /\ row.link_page_id \in live
               /\ row.link_page_id \notin expired
               /\ row.link_page_id \in show_in_menus}

\* C12: top_level_items contains exactly the display-eligible items with no
\* linked page and the display-eligible items whose linked page passes the
\* base page filter, each once and each linked item with its own page
\* attached; the other items are dropped, and when none is left the result
\* is the empty list.
C12_TopLevelItems ==
    ItemsMenu /\ IsCached(top_level_items) =>
        LET tli == Value(top_level_items)
            rows == get_base_menuitem_queryset
        IN  /\ Len(tli) = Cardinality(Eligible)
            /\ {tli[k].sort_order : k \in DOMAIN tli}
                  = {rows[k].sort_order : k \in Eligible}
            /\ \A k \in DOMAIN tli : \E r \in Eligible :
                  /\ tli[k].sort_order = rows[r].sort_order
                  /\ tli[k].link_page_id = rows[r].link_page_id
                  /\ tli[k].allow_subnav = rows[r].allow_subnav
                  /\ tli[k].link_page.id = rows[r].link_page_id
            /\ Eligible = {} => tli = << >>

\* an item with a custom URL is kept while the item linking to the filtered
\* out section A is dropped
C12_Witness ==
    /\ ItemsMenu
    /\ IsCached(top_level_items)
    /\ Len(get_base_menuitem_queryset) = 2
    /\ Len(Value(top_level_items)) = 1
    /\ Value(top_level_items)[1].link_page_id = 0
    /\ 2 \notin get_base_page_queryset

----------------------------------------------------------------------------
(* C13 *)

\* C13: the items of top_level_items are in ascending sort_order, the order
\* of the menu-item query: dropping items and attaching pages never reorders
\* the remaining items.
C13_ItemOrder ==
    ItemsMenu /\ IsCached(top_level_items) =>
        \A j, k \in DOMAIN Value(top_level_items) :
            j < k => Value(top_level_items)[j].sort_order
                       < Value(top_level_items)[k].sort_order

\* two items are left, the second with its page attached
C13_Witness ==
    /\ ItemsMenu
    /\ IsCached(top_level_items)
    /\ Len(Value(top_level_items)) >= 2
    /\ Value(top_level_items)[2].link_page.id # 0

----------------------------------------------------------------------------
(* C14 *)

----------------------------------------------------------------------------
(* C15 *)

\* C15: MenuItem.clean fails when both a page and a URL are set, when
\* neither is set, and when a URL is set with an empty link text; it passes
\* in every other case.
C15_CleanOutcome ==
    call.op = "clean" =>
        LET item == call.item
            page == item.link_page # 0
            url == item.link_url # ""
            text == item.link_text # ""
        IN  result.raised <=> \/ page /\ url
                              \/ ~page /\ ~url
                              \/ url /\ ~text

\* an item with a page, a URL and a link text has been refused
C15_Witness ==
    /\ call.op = "clean"
    /\ call.item.link_page # 0
    /\ call.item.link_url # ""
    /\ call.item.link_text # ""
    /\ result.raised

----------------------------------------------------------------------------
(* C16 *)

\* C16: every validation failure raised by MenuItem.clean is a field-level
\* failure that names the offending field.
C16_FieldLevel ==
    call.op = "clean" /\ result.raised => result.fields # {}

----------------------------------------------------------------------------
(* C17 *)

\* the flat menus of a site with a handle
MenusOf(site, handle) ==
    {m \in flat_menus : m.site = site /\ m.handle = handle}

\* C17: get_for_site(handle, site, fall_back) returns the site's menu with
\* that handle when there is one; otherwise the default site's menu with that
\* handle, only if fall_back is true, the site is not the default site and
\* such a menu exists; in every other case None.  It never returns a menu
\* with another handle.
C17_GetForSite ==
    call.op = "get_for_site" =>
        LET own == MenusOf(call.site, call.handle)
            fallback ==
                IF default_site = 0 THEN {}
                ELSE MenusOf(default_site, call.handle)
            may_fall_back ==
                /\ call.fall_back
                /\ call.site # default_site
                /\ fallback # {}
        IN  /\ own # {} => result.menu \in own
            /\ own = {} /\ may_fall_back => result.menu \in fallback
            /\ own = {} /\ ~may_fall_back => result.menu = NoMenu
            /\ result.menu # NoMenu => result.menu.handle = call.handle

\* the site has a menu with another handle only, and the default site's menu
\* with the handle asked for is returned
C17_Witness ==
    /\ call.op = "get_for_site"
    /\ MenusOf(call.site, call.handle) = {}
    /\ \E m \in flat_menus : m.site = call.site
    /\ result.menu # NoMenu
    /\ result.menu.site = default_site
    /\ result.menu.site # call.site

----------------------------------------------------------------------------
(* C20 *)

\* the template name has a hostname put into it
HasHostname(name) == \E k \in DOMAIN name : name[k] \in Hostnames

\* C20: the candidates of get_template_names and get_sub_menu_template_names
\* contain names with the site's hostname only when
\* SITE_SPECIFIC_TEMPLATE_DIRS is enabled and a current site is available
\* (and then the first, most specific, candidate is one); all of those come
\* before every name without the hostname; the last entry is always the
\* class's least specific template.
C20_TemplateNames ==
    call.op \in {"get_template_names", "get_sub_menu_template_names"} =>
        LET names == result.names
            available == call.site_specific /\ call.hostname # ""
        IN  /\ (\E k \in DOMAIN names : HasHostname(names[k])) <=> available
            /\ available => /\ HasHostname(names[1])
                            /\ \A k \in DOMAIN names :
                                  HasHostname(names[k]) =>
                                      \E j \in DOMAIN names[k] :
                                          names[k][j] = call.hostname
            /\ \A j, k \in DOMAIN names :
                  HasHostname(names[j]) /\ ~HasHostname(names[k]) => j < k
            /\ names # << >>
            /\ names[Len(names)] =
                  IF call.op = "get_template_names"
                  THEN get_least_specific_template_name(
                           call.menu.menu_short_name)
                  ELSE get_least_specific_sub_menu_template_name

\* a flat menu's template names have been asked for on a site, with the
\* setting enabled
C20_Witness ==
    /\ call.op = "get_template_names"
    /\ call.menu.menu_short_name = "flat"
    /\ call.site_specific
    /\ call.hostname # ""
    /\ HasHostname(result.names[1])
    /\ ~HasHostname(result.names[Len(result.names)])

----------------------------------------------------------------------------
(* C18 *)

\* C18: modify_submenu_items does not change the list passed in, the
\* children list the children index holds for the page: after the call the
\* index holds the same list for the page, and no list of the index has a
\* repeated item.
C18_ChildrenListKept ==
    call.op = "modify_submenu_items" =>
        /\ dict_get(Value(page_children_dict), path(call.page))
              = call.menu_items
        /\ \A key \in DOMAIN Value(page_children_dict) :
              RepeatedItems(Value(page_children_dict)[key]) = {}

----------------------------------------------------------------------------
(* C19 *)

\* C19: page_has_children(page) is true exactly when page.path is a key of
\* the children index, and the keys of the index are exactly the parent
\* paths of the pages of pages_for_display: whatever has been read through
\* get_children_for_page or page_has_children, the index has no other key.
C19_HasChildren ==
    IsCached(page_children_dict) =>
        /\ IsCached(pages_for_display)
        /\ DOMAIN Value(page_children_dict) =
              {ParentPath(path(q)) : q \in Ids(Value(pages_for_display))}
        /\ \A p \in PageIds :
              page_has_children(p) <=>
                  \E q \in Ids(Value(pages_for_display)) :
                      ParentPath(path(q)) = path(p)

\* section A has children in the menu; its child A1 has none, although A1's
\* own child passes the filter, and asking for A1's children left no key
C19_Witness ==
    /\ IsCached(page_children_dict)
    /\ computed = {}
    /\ page_has_children(2)
    /\ ~page_has_children(3)
    /\ VisibleChildren(3) # {}
    /\ get_children_for_page(3) = << >>

----------------------------------------------------------------------------
(* C23 *)

\* C23, as stated: for a model-backed menu, in every reachable state
\* pages_for_display is resolved (cached) only if top_level_items is.
C23_Original ==
    ItemsMenu /\ IsCached(pages_for_display) => IsCached(top_level_items)

\* C23, amended: for a model-backed menu with max_levels > 1, in every
\* reachable state pages_for_display is resolved only if top_level_items is:
\* the first access to pages_for_display resolves top_level_items first and
\* whatever discards top_level_items discards pages_for_display too.
C23_ResolvedInOrder ==
    ItemsMenu /\ max_levels > 1 /\ IsCached(pages_for_display)
        => IsCached(top_level_items)

\* set_use_specific has just discarded both values of a menu with
\* max_levels > 1
C23_Witness ==
    /\ ItemsMenu
    /\ max_levels > 1
    /\ {"top_level_items", "pages_for_display"} \subseteq discarded
    /\ ~IsCached(pages_for_display)
    /\ ~IsCached(top_level_items)

----------------------------------------------------------------------------
(* C24 *)

\* the pages of the list whose parent path is key, in the order of the list
ChildrenOf(pages, key) ==
    LET below(page) == ParentPath(path(page.id)) = key
    IN  SelectSeq(pages, below)

----------------------------------------------------------------------------
(* C28 *)

\* C28: for a root-page-based menu, every page p and every max_levels,
\* get_children_for_page(p) returns only pages whose parent path is p.path,
\* and page_has_children(p) is true exactly when get_children_for_page(p) is
\* not empty.
C28_RootChildren ==
    RootMenu /\ IsCached(pages_for_display) /\ IsCached(page_children_dict)
        => \A p \in PageIds :
              /\ \A k \in DOMAIN get_children_for_page(p) :
                    ParentPath(path(get_children_for_page(p)[k].id)) = path(p)
              /\ page_has_children(p) <=> get_children_for_page(p) # << >>

----------------------------------------------------------------------------
(* C29 *)

\* the pages whose children a menu shows without looking at the filter: the
\* root page, or the linked pages of the top-level items
Entries ==
    IF RootMenu THEN {root_page}
    ELSE {Value(top_level_items)[k].link_page.id :
             k \in Linked(Value(top_level_items))}

\* the page with path p, of which there is at most one
PageAt(p) == {i \in PageIds : path(i) = p}

\* C29, as stated: the parent of every page of pages_for_display is the
\* linked page of a top-level item, the root page, or another page of
\* pages_for_display.
C29_Original ==
    IsCached(pages_for_display) =>
        \A p \in Ids(Value(pages_for_display)) :
            PageAt(ParentPath(path(p)))
              \subseteq Entries \cup Ids(Value(pages_for_display))

\* C29, amended: the parent of every page of pages_for_display is the linked
\* page of a top-level item, the root page, another page of
\* pages_for_display, or a page that fails the base page filter.
C29_ParentShownOrFiltered ==
    IsCached(pages_for_display) =>
        \A p \in Ids(Value(pages_for_display)) :
            PageAt(ParentPath(path(p)))
              \subseteq Entries \cup Ids(Value(pages_for_display))
                          \cup (PageIds \ get_base_page_queryset)

\* A11 is among the pages while its parent A1 fails the filter, and B1 is
\* among them below section B
C29_Witness ==
    /\ IsCached(pages_for_display)
    /\ 4 \in Ids(Value(pages_for_display))
    /\ 3 \notin get_base_page_queryset
    /\ 6 \in Ids(Value(pages_for_display))

----------------------------------------------------------------------------
(* C25 *)

\* C25: modify_submenu_items returns the submenu with one extra item placed
\* first, marked is_repeated_item, exactly when allow_repeating_parents is
\* true, the page has repeat_in_subnav set and the submenu has at least one
\* item; otherwise it returns the submenu as it was.  The extra item's text
\* is repeated_item_text, or the page title when that is blank, and its
\* active_class is the active class exactly when apply_active_classes is
\* true and the page is the current page, else the empty string.
C25_RepeatedItem ==
    call.op = "modify_submenu_items" =>
        LET given == call.menu_items
            returned == result.menu_items
        IN  IF /\ call.allow_repeating_parents
               /\ call.page \in repeat_in_subnav
               /\ Len(given) >= 1
            THEN /\ Len(returned) = Len(given) + 1
                 /\ Tail(returned) = given
                 /\ returned[1].id = call.page
                 /\ returned[1].is_repeated_item
                 /\ returned[1].text =
                       IF repeated_item_text[call.page] = ""
                       THEN title[call.page]
                       ELSE repeated_item_text[call.page]
                 /\ returned[1].active_class =
                       IF /\ call.apply_active_classes
                          /\ call.page = call.current_page
                       THEN ACTIVE_CLASS ELSE ""
            ELSE returned = given

\* section B, which has no repeated_item_text and is not the current page,
\* has been repeated in front of its child
C25_Witness ==
    /\ call.op = "modify_submenu_items"
    /\ call.page = 5
    /\ call.current_page # 5
    /\ call.apply_active_classes
    /\ Len(result.menu_items) = 2
    /\ result.menu_items[1].text = "B"
    /\ result.menu_items[1].active_class = ""
    /\ result.menu_items[2].id = 6

----------------------------------------------------------------------------
(* C22 *)

\* C22: while the configured related name is not an attribute of the menu,
\* get_menu_items_manager raises ImproperlyConfigured naming the related
\* name and the menu class, on every call; top_level_items and
\* add_menu_items_for_pages fail the same way: top_level_items is never
\* resolved and no item is added.
C22_ImproperlyConfigured ==
    /\ [](related_name \notin MenuAttributes
            => /\ ~IsCached(top_level_items)
               /\ get_menu_items_manager.op = "ImproperlyConfigured"
               /\ get_menu_items_manager.name = related_name
               /\ get_menu_items_manager.class = menu_class)
    /\ [][related_name \notin MenuAttributes
            => /\ menu_items' = menu_items
               /\ ~IsCached(top_level_items')
               /\ \/ GetMenuItemsManager
                  \/ ReadTopLevelItems
                  \/ \E pagequeryset \in SUBSET AddCandidates :
                       \E allow_subnav \in BOOLEAN :
                         AddMenuItemsForPages(pagequeryset, allow_subnav)
                  => result' = get_menu_items_manager]_vars

\* adding two pages has failed with ImproperlyConfigured
C22_Witness ==
    /\ related_name \notin MenuAttributes
    /\ call.op = "add_menu_items_for_pages"
    /\ Len(call.pagequeryset) = 2
    /\ result.op = "ImproperlyConfigured"
    /\ result.name = related_name
    /\ Len(menu_items) = call.count

----------------------------------------------------------------------------
(* C21 *)

CleanedChoice == call.op = "TypedChoiceField.clean"

\* C21: UseSpecificChoiceField and MaxLevelsChoiceField accept only the
\* texts of the values of their enumeration, or the empty value, which
\* yields None; any other value fails with an error that lists the legal
\* values; an accepted value is returned as the integer it is the text of.
C21_ClosedEnumeration ==
    CleanedChoice =>
      LET legal == choices(call.field)
      IN  /\ result.op = "cleaned"
               => \/ call.value = <<>> /\ result.value = "None"
                  \/ /\ result.value \in legal
                     /\ call.value = str(result.value)
          /\ call.value = <<>> /\ ~call.required => result.op = "cleaned"
          /\ \A k \in legal :
               call.value = str(k)
                 => result = [op |-> "cleaned", value |-> k]
          /\ /\ call.value # <<>>
             /\ \A k \in legal : call.value # str(k)
             => /\ result.op = "ValidationError"
                /\ result.code = "invalid_choice"
                /\ result.one_of = legal

\* a value that reads as a legal number but is not the text of one was
\* rejected
C21_Witness ==
    /\ CleanedChoice
    /\ call.field = "MaxLevelsChoiceField"
    /\ call.value = <<"0", "2">>
    /\ result.op = "ValidationError"
    /\ result.one_of = MAX_LEVELS_CHOICES

----------------------------------------------------------------------------
(* C30 *)

\* C30: PageChoiceField and SiteChoiceField use the queryset passed by the
\* caller when one is given, and fall back to an empty queryset only when no
\* queryset argument is supplied.
C30_CallerQueryset ==
    call.op = "ModelChoiceField.__init__" =>
       /\ result.op = "field"
       /\ result.queryset =
            IF "queryset" \in DOMAIN call.kwargs THEN call.kwargs.queryset
            ELSE {}

----------------------------------------------------------------------------
(* C26 *)

\* C26: MenuGeneratorView.get works in a fixed order.  An invalid argument
\* form raises ValidationError with the form's field errors and no menu
\* instance is resolved; a valid form for which the menu class returns no
\* instance raises NotFound and nothing is serialized; only otherwise is the
\* serialized menu returned.
C26_FixedOrder ==
    call.op = "get" =>
       LET cls == get_menu_class(call.view)
       IN  /\ call.errors # {}
                => /\ result.op = "ValidationError"
                   /\ result.detail = call.errors
                   /\ result.menu_instance = Unresolved
                   /\ result.data = Unserialized
           /\ call.errors = {} /\ cls \notin call.found
                => /\ result.op = "NotFound"
                   /\ result.class_name = cls
                   /\ result.data = Unserialized
           /\ result.op = "Response"
                <=> call.errors = {} /\ cls \in call.found
           /\ result.op = "Response"
                => /\ result.menu_instance = [class |-> cls]
                   /\ result.data.instance = result.menu_instance

\* an invalid form was refused although the menu could have been found
C26_Witness ==
    /\ call.op = "get"
    /\ call.errors = FormFields
    /\ get_menu_class(call.view) \in call.found
    /\ result.op = "ValidationError"
    /\ result.menu_instance = Unresolved

----------------------------------------------------------------------------
(* C27 *)

\* C27: FlatMenuGeneratorView resolves its menu instance from the flat menu
\* model, the model its FlatMenuSerializer serializes: a flat-menu request
\* never yields a main menu instance.
C27_FlatMenuInstance ==
    /\ call.op = "get"
    /\ call.view = "FlatMenuGeneratorView"
    /\ result.op = "Response"
    => /\ result.menu_instance.class = FLAT_MENU_MODEL
       /\ result.menu_instance.class = Meta_model(result.data.serializer)
       /\ result.menu_instance.class # MAIN_MENU_MODEL

====
